---- MODULE Spec2Model ----
(***************************************************************************)
(* Model of the Highcharts parallel-coordinates module                     *)
(* (k-base/assets/highchart/code/js/es-modules/modules/                    *)
(* parallel-coordinates.src.js).  The module is a set of hooks on the host *)
(* chart: Chart init / update, Axis afterSetOptions / getSeriesExtremes,   *)
(* Series bindAxes / afterTranslate / destroy, Point getLabelConfig.       *)
(*                                                                         *)
(* JavaScript values are tagged tuples, so that undefined, null, numbers,  *)
(* booleans and strings stay distinct and comparable.                      *)
(***************************************************************************)
EXTENDS Integers, Sequences, FiniteSets, TLC

VARIABLES
    pc,        \* position in the chart's lifecycle: "start", "axes", "ready"
    options,   \* the user options object handed to Chart init (e.args[0])
    chart,     \* the chart's own fields and its options.chart.parallelAxes
    xAxis,     \* chart.xAxis
    yAxis,     \* chart.yAxis
    series,    \* the series objects, by id
    event,     \* the last getSeriesExtremes event object
    config,    \* the label config returned by the last getLabelConfig
    threw      \* TRUE once a handler ended in a TypeError

vars == <<pc, options, chart, xAxis, yAxis, series, event, config, threw>>

-----------------------------------------------------------------------------
(* Bounds of the model.                                                    *)

MaxUserAxes == 2
MaxSeries == 2
MaxLen == 2
MaxAxes == 3
MaxBinds == 2

-----------------------------------------------------------------------------
(* JavaScript values.                                                      *)

Undefined == <<"undefined">>
Null == <<"null">>
Num(n) == <<"number", n>>
Bool(b) == <<"boolean", b>>
Str(s) == <<"string", s>>
\* n/d as a number; the quotient is kept unreduced
Ratio(n, d) == <<"ratio", n, d>>
\* the string (n/d) + '%'
Percent(n, d) == <<"percent", n, d>>

IsNum(v) == Len(v) = 2 /\ v[1] = "number"

\* JavaScript truthiness of the values the model uses
Truthy(v) ==
    CASE v = Undefined -> FALSE
      [] v = Null -> FALSE
      [] v[1] = "boolean" -> v[2]
      [] v[1] = "number" -> v[2] # 0
      [] v[1] = "string" -> v[2] # ""
      [] OTHER -> TRUE

defined(v) == v # Undefined /\ v # Null

pick(a, b) == IF defined(a) THEN a ELSE b

\* A JavaScript value that is undefined, one object, or an array of objects.
JsUndef == [kind |-> "undefined", items |-> <<>>]
JsObj(o) == [kind |-> "object", items |-> <<o>>]
JsArr(s) == [kind |-> "array", items |-> s]

\* splat(x || dflt): x is an object or an array when it is truthy
splatOr(x, dflt) == IF x.kind = "undefined" THEN <<dflt>> ELSE x.items

Max(a, b) == IF a >= b THEN a ELSE b
Min(a, b) == IF a <= b THEN a ELSE b
Abs(a) == IF a < 0 THEN -a ELSE a

-----------------------------------------------------------------------------
(* Option objects.  Only the keys the module reads or writes are kept.     *)

GeomKeys == {"left", "width", "height", "top"}

\* {} as an axis options object
EmptyAxisOptions ==
    [left |-> Undefined, width |-> Undefined, height |-> Undefined,
     top |-> Undefined, angle |-> Undefined,
     tooltipValueFormat |-> Undefined, labelsFormat |-> Undefined,
     categories |-> Undefined, type |-> Undefined, opposite |-> Undefined]

\* merge(a, b): the keys b sets win, the others stay
merge(a, b) ==
    [k \in DOMAIN a |-> IF b[k] # Undefined THEN b[k] ELSE a[k]]

defaultXAxisOptions ==
    [EmptyAxisOptions EXCEPT !.opposite = Bool(TRUE), !.type = Str("category")]

\* the keys of defaultParallelOptions.parallelAxes that the model keeps
defaultParallelAxes == EmptyAxisOptions

MAX_SAFE_INTEGER == Str("Number.MAX_SAFE_INTEGER")

-----------------------------------------------------------------------------
(* Chart.prototype.setParallelInfo                                         *)

RECURSIVE counterOver(_, _)
counterOver(seriesOptions, counter) ==
    IF seriesOptions = <<>> THEN counter
    ELSE LET s == Head(seriesOptions)
         IN counterOver(Tail(seriesOptions),
                IF s.data.kind # "undefined"
                THEN Max(counter, Len(s.data.items) - 1)
                ELSE counter)

setParallelInfo(opts) == [counter |-> counterOver(opts.series, 0)]

-----------------------------------------------------------------------------
(* Chart 'init' handler                                                    *)

\* newYAxes with the loop ended one axis early
RECURSIVE newYAxesShort(_, _)
newYAxesShort(yAxisLength, counter) ==
    IF yAxisLength < counter
    THEN <<EmptyAxisOptions>> \o newYAxesShort(yAxisLength + 1, counter)
    ELSE <<>>

RECURSIVE newYAxes(_, _)
newYAxes(yAxisLength, counter) ==
    IF yAxisLength <= counter
    THEN <<EmptyAxisOptions>> \o newYAxes(yAxisLength + 1, counter)
    ELSE <<>>

initFlag(opts) ==
    IF opts.chart.kind = "undefined" THEN Undefined
    ELSE opts.chart.items[1].parallelCoordinates

initOptions(opts) ==
    LET defaultyAxis == splatOr(opts.yAxis, EmptyAxisOptions)
        info == setParallelInfo(opts)
        legend == IF opts.legend.kind = "undefined"
                  THEN [enabled |-> Undefined]
                  ELSE opts.legend.items[1]
    IN  [opts EXCEPT
            !.legend = JsObj(IF legend.enabled = Undefined
                             THEN [legend EXCEPT !.enabled = Bool(FALSE)]
                             ELSE legend),
            !.boost = [seriesThreshold |-> MAX_SAFE_INTEGER,
                       boostThreshold |-> MAX_SAFE_INTEGER],
            !.yAxis = JsArr(defaultyAxis \o
                            newYAxes(Len(defaultyAxis), info.counter)),
            !.xAxis = JsObj(merge(defaultXAxisOptions,
                                  splatOr(opts.xAxis, EmptyAxisOptions)[1]))]

\* the chart after the handler ran on the user's options
initChart(opts, ch) ==
    [ch EXCEPT
        !.hasParallelCoordinates = initFlag(opts),
        !.parallelInfo = IF Truthy(initFlag(opts))
                         THEN JsObj(setParallelInfo(opts))
                         ELSE ch.parallelInfo]

ChartInit ==
    /\ pc = "start"
    /\ chart' = initChart(options, chart)
    /\ options' = IF Truthy(initFlag(options))
                  THEN initOptions(options) ELSE options
    /\ pc' = "axes"
    /\ UNCHANGED <<xAxis, yAxis, series, event, config, threw>>

-----------------------------------------------------------------------------
(* Axis objects.  The host builds axis.options from the user's options     *)
(* (Axis.setOptions) and then fires afterSetOptions.                       *)

NewAxis(isX, userOptions) ==
    [isXAxis |-> isX,
     userOptions |-> userOptions,
     options |-> merge(EmptyAxisOptions, userOptions),
     parallelPosition |-> Undefined,
     isDatetimeAxis |-> (userOptions.type = Str("datetime")),
     left |-> Undefined, width |-> Undefined,
     height |-> Undefined, top |-> Undefined,
     angleRad |-> Undefined,
     series |-> <<>>,
     isDirty |-> FALSE, forceRedraw |-> FALSE,
     dataMin |-> Undefined, dataMax |-> Undefined]

(* Axis.prototype.setParallelPosition.  Reading counter of an undefined    *)
(* chart.parallelInfo is a TypeError: nothing is written and threw is set. *)
setParallelPositionNoClear(axis, axisPosition, ch) ==
    IF ch.parallelInfo.kind = "undefined"
    THEN [axis |-> axis, threw |-> TRUE]
    ELSE
    LET num == 2 * axis.parallelPosition[2] + 1
        den == 2 * (ch.parallelInfo.items[1].counter + 1)
    IN  IF ch.polar
        THEN [axis |-> [axis EXCEPT !.options.angle = Ratio(360 * num, den)],
              threw |-> FALSE]
        ELSE [axis |->
                [axis EXCEPT
                    !.options[axisPosition[1]] = Percent(100 * num, den),
                    !.options[axisPosition[2]] = Num(0),
                    ![axisPosition[2]] = Num(0)],
              threw |-> FALSE]

setParallelPosition(axis, axisPosition, ch) ==
    IF ch.parallelInfo.kind = "undefined"
    THEN [axis |-> axis, threw |-> TRUE]
    ELSE
    LET num == 2 * axis.parallelPosition[2] + 1
        den == 2 * (ch.parallelInfo.items[1].counter + 1)
    IN  IF ch.polar
        THEN [axis |-> [axis EXCEPT !.options.angle = Ratio(360 * num, den)],
              threw |-> FALSE]
        ELSE [axis |->
                [axis EXCEPT
                    !.options[axisPosition[1]] = Percent(100 * num, den),
                    !.options[axisPosition[2]] = Num(0),
                    ![axisPosition[2]] = Num(0),
                    !.options[axisPosition[3]] = Null,
                    ![axisPosition[3]] = Null,
                    !.options[axisPosition[4]] = Null,
                    ![axisPosition[4]] = Null],
              threw |-> FALSE]

reverse(s) == [i \in 1..Len(s) |-> s[Len(s) + 1 - i]]

\* afterSetOptions taking the position anew from the axis count each time
afterSetOptionsRepositioned(axis, ch, nY, userOptions) ==
    LET axisPosition ==
            IF ch.inverted
            THEN reverse(<<"left", "width", "height", "top">>)
            ELSE <<"left", "width", "height", "top">>
    IN  IF ~Truthy(ch.hasParallelCoordinates)
        THEN [axis |-> axis, threw |-> FALSE]
        ELSE IF axis.isXAxis
        THEN [axis |->
                [axis EXCEPT !.options =
                    merge(merge(axis.options, defaultXAxisOptions),
                          userOptions)],
              threw |-> FALSE]
        ELSE setParallelPosition(
                [axis EXCEPT
                    !.options = merge(merge(axis.options, ch.parallelAxes),
                                      userOptions),
                    !.parallelPosition = Num(nY)],
                axisPosition, ch)

(* Axis 'afterSetOptions' handler, for an axis of a chart that has nY Y    *)
(* axes in chart.yAxis, fired with e.userOptions = userOptions.            *)
afterSetOptions(axis, ch, nY, userOptions) ==
    LET axisPosition ==
            IF ch.inverted
            THEN reverse(<<"left", "width", "height", "top">>)
            ELSE <<"left", "width", "height", "top">>
    IN  IF ~Truthy(ch.hasParallelCoordinates)
        THEN [axis |-> axis, threw |-> FALSE]
        ELSE IF axis.isXAxis
        THEN [axis |->
                [axis EXCEPT !.options =
                    merge(merge(axis.options, defaultXAxisOptions),
                          userOptions)],
              threw |-> FALSE]
        ELSE setParallelPosition(
                [axis EXCEPT
                    !.options = merge(merge(axis.options, ch.parallelAxes),
                                      userOptions),
                    !.parallelPosition = pick(axis.parallelPosition, Num(nY))],
                axisPosition, ch)

-----------------------------------------------------------------------------
(* Host steps that fire afterSetOptions: the construction of the axes      *)
(* (Chart.getAxes), chart.addAxis and axis.update.                         *)

AxisDefs(opts) == splatOr(opts.yAxis, EmptyAxisOptions)

CreateXAxis ==
    /\ pc = "axes"
    /\ xAxis = <<>>
    /\ LET def == splatOr(options.xAxis, EmptyAxisOptions)[1]
           r == afterSetOptions(NewAxis(TRUE, def), chart, Len(yAxis), def)
       IN  xAxis' = <<r.axis>>
    /\ pc' = IF AxisDefs(options) = <<>> THEN "ready" ELSE "axes"
    /\ UNCHANGED <<options, chart, yAxis, series, event, config, threw>>

CreateYAxis ==
    /\ pc = "axes"
    /\ xAxis # <<>>
    /\ Len(yAxis) < Len(AxisDefs(options))
    /\ LET def == AxisDefs(options)[Len(yAxis) + 1]
           r == afterSetOptions(NewAxis(FALSE, def), chart, Len(yAxis), def)
       IN  yAxis' = Append(yAxis, r.axis)
    /\ pc' = IF Len(yAxis) + 1 = Len(AxisDefs(options))
             THEN "ready" ELSE "axes"
    /\ UNCHANGED <<options, chart, xAxis, series, event, config, threw>>

\* chart.addAxis(def): the axis joins chart.yAxis after its options are set
AddAxis(def) ==
    /\ pc = "ready"
    /\ Len(yAxis) < MaxAxes
    /\ LET r == afterSetOptions(NewAxis(FALSE, def), chart, Len(yAxis), def)
       IN  /\ yAxis' = IF r.threw THEN yAxis ELSE Append(yAxis, r.axis)
           /\ threw' = (threw \/ r.threw)
    /\ UNCHANGED <<pc, options, chart, xAxis, series, event, config>>

\* axis.update(def): the host destroys the axis but for its keepProps
\* (series, and parallelPosition, which this module adds to them), and
\* initialises it again with the merged user options
axisUpdate(axis, ch, nY, def) ==
    LET userOptions == merge(axis.userOptions, def)
        again == [NewAxis(axis.isXAxis, userOptions) EXCEPT
                     !.parallelPosition = axis.parallelPosition,
                     !.series = axis.series]
    IN  afterSetOptions(again, ch, nY, userOptions)

AxisUpdate(i, def) ==
    /\ pc = "ready"
    /\ i \in 1..Len(yAxis)
    /\ LET r == axisUpdate(yAxis[i], chart, Len(yAxis), def)
       IN  /\ yAxis' = [yAxis EXCEPT ![i] = r.axis]
           /\ threw' = (threw \/ r.threw)
    /\ UNCHANGED <<pc, options, chart, xAxis, series, event, config>>

\* each(axes, function (axis) { axis.update({}, false); }), which ends at
\* the first axis whose update throws
RECURSIVE eachUpdate(_, _, _, _)
eachUpdate(axes, i, ch, nY) ==
    IF i > Len(axes) THEN [axes |-> axes, threw |-> FALSE]
    ELSE LET r == axisUpdate(axes[i], ch, nY, EmptyAxisOptions)
             upd == [axes EXCEPT ![i] = r.axis]
         IN  IF r.threw THEN [axes |-> upd, threw |-> TRUE]
             ELSE eachUpdate(upd, i + 1, ch, nY)

-----------------------------------------------------------------------------
(* Chart 'update' handler, fired with e.options = o                        *)

ChartUpdate(o) ==
    /\ pc = "ready"
    /\ LET given == o.chart.kind # "undefined"
           oc == o.chart.items[1]
           flag == IF given /\ defined(oc.parallelCoordinates)
                   THEN oc.parallelCoordinates
                   ELSE chart.hasParallelCoordinates
           relayout == given /\ Truthy(flag)
                          /\ oc.parallelAxes.kind # "undefined"
           ch == [chart EXCEPT
                     !.hasParallelCoordinates = flag,
                     !.parallelAxes =
                         IF relayout
                         THEN merge(chart.parallelAxes, oc.parallelAxes.items[1])
                         ELSE chart.parallelAxes]
           r == IF relayout
                THEN eachUpdate(yAxis, 1, ch, Len(yAxis))
                ELSE [axes |-> yAxis, threw |-> FALSE]
       IN  /\ chart' = ch
           /\ yAxis' = r.axes
           /\ threw' = (threw \/ r.threw)
    /\ UNCHANGED <<pc, options, xAxis, series, event, config>>

\* chart.update({chart: {inverted: b}}): the handler above finds neither
\* parallelCoordinates nor parallelAxes; the host then flips chart.inverted
\* and updates every axis.
UpdateInverted ==
    /\ pc = "ready"
    /\ LET ch == [chart EXCEPT !.inverted = ~chart.inverted]
           rx == eachUpdate(xAxis, 1, ch, Len(yAxis))
           ry == IF rx.threw THEN [axes |-> yAxis, threw |-> TRUE]
                 ELSE eachUpdate(yAxis, 1, ch, Len(yAxis))
       IN  /\ chart' = ch
           /\ xAxis' = rx.axes
           /\ yAxis' = ry.axes
           /\ threw' = (threw \/ ry.threw)
    /\ UNCHANGED <<pc, options, series, event, config>>

-----------------------------------------------------------------------------------------------------------------------------------------------------
(* Series and points.                                                      *)

MAX_VALUE == 2147483647

NewPoint(x, y) ==
    [x |-> x, y |-> y,
     plotX |-> Undefined, clientX |-> Undefined, plotY |-> Undefined,
     isInside |-> Undefined, isNull |-> FALSE,
     formattedValue |-> Undefined]

\* the series object the host makes of a series options object
NewSeries(seriesOptions) ==
    LET data == seriesOptions.data.items
    IN  [yData |-> data,
         points |-> [i \in 1..Len(data) |-> NewPoint(i - 1, data[i])],
         closestPointRangePx |-> Undefined,
         xAxis |-> Undefined, yAxis |-> Undefined,
         destroyed |-> FALSE]

\* Series.prototype.insert for a series without an index option
insert(collection, s) == Append(collection, s)

\* H.erase: the last occurrence of item leaves the array
RECURSIVE erase(_, _)
erase(arr, item) ==
    IF arr = <<>> THEN arr
    ELSE IF arr[Len(arr)] = item THEN SubSeq(arr, 1, Len(arr) - 1)
    ELSE Append(erase(SubSeq(arr, 1, Len(arr) - 1), item), arr[Len(arr)])

Occurrences(arr, item) == Cardinality({i \in 1..Len(arr) : arr[i] = item})

\* the first axis of a collection, as the series refers to it
FirstOf(axes) == IF axes = <<>> THEN Undefined ELSE Num(0)

-----------------------------------------------------------------------------
(* Series.prototype.bindAxes, wrapped                                      *)

\* the host's own bindAxes (proceed): the series joins its nominal axes,
\* the first X and the first Y axis
proceedBindAxes(s, st) ==
    [xAxis |-> [i \in 1..Len(st.xAxis) |->
                    IF i = 1
                    THEN [st.xAxis[i] EXCEPT !.series = insert(@, s),
                                             !.isDirty = TRUE]
                    ELSE st.xAxis[i]],
     yAxis |-> [i \in 1..Len(st.yAxis) |->
                    IF i = 1
                    THEN [st.yAxis[i] EXCEPT !.series = insert(@, s),
                                             !.isDirty = TRUE]
                    ELSE st.yAxis[i]],
     series |-> [st.series EXCEPT ![s].xAxis = FirstOf(st.xAxis),
                                  ![s].yAxis = FirstOf(st.yAxis)]]

\* st holds the chart's xAxis, yAxis and series
bindAxes(s, st, ch) ==
    IF Truthy(ch.hasParallelCoordinates)
    THEN [xAxis |-> [i \in 1..Len(st.xAxis) |->
                        [st.xAxis[i] EXCEPT !.series = insert(@, s),
                                            !.isDirty = TRUE]],
          yAxis |-> [i \in 1..Len(st.yAxis) |->
                        [st.yAxis[i] EXCEPT !.series = insert(@, s),
                                            !.isDirty = TRUE]],
          series |-> [st.series EXCEPT ![s].xAxis = FirstOf(st.xAxis),
                                       ![s].yAxis = FirstOf(st.yAxis)]]
    ELSE proceedBindAxes(s, st)

\* Series.init: the host makes the next configured series and binds it
InitSeries ==
    /\ pc = "ready"
    /\ Len(series) < Len(options.series)
    /\ LET s == Len(series) + 1
           st == [xAxis |-> xAxis, yAxis |-> yAxis,
                  series |-> Append(series, NewSeries(options.series[s]))]
           r == bindAxes(s, st, chart)
       IN  /\ xAxis' = r.xAxis
           /\ yAxis' = r.yAxis
           /\ series' = r.series
    /\ UNCHANGED <<pc, options, chart, event, config, threw>>

\* bindAxes on a series that exists: a second binding, or the binding of a
\* series that the host initialises again after its destruction
BindAxes(s) ==
    /\ pc = "ready"
    /\ s \in 1..Len(series)
    /\ \A i \in 1..Len(yAxis) : Occurrences(yAxis[i].series, s) < MaxBinds
    /\ \A i \in 1..Len(xAxis) : Occurrences(xAxis[i].series, s) < MaxBinds
    /\ LET st == [xAxis |-> xAxis, yAxis |-> yAxis,
                  series |-> [series EXCEPT ![s].destroyed = FALSE]]
           r == bindAxes(s, st, chart)
       IN  /\ xAxis' = r.xAxis
           /\ yAxis' = r.yAxis
           /\ series' = r.series
    /\ UNCHANGED <<pc, options, chart, event, config, threw>>

-----------------------------------------------------------------------------
(* Series 'destroy' handler                                                *)

destroyedAxesUnguarded(s, axes, ch) ==
    [i \in 1..Len(axes) |->
        [axes[i] EXCEPT !.series = erase(@, s),
                        !.isDirty = TRUE, !.forceRedraw = TRUE]]

destroyedAxes(s, axes, ch) ==
    IF Truthy(ch.hasParallelCoordinates)
    THEN [i \in 1..Len(axes) |->
            [axes[i] EXCEPT !.series = erase(@, s),
                            !.isDirty = TRUE, !.forceRedraw = TRUE]]
    ELSE axes

Destroy(s) ==
    /\ pc = "ready"
    /\ s \in 1..Len(series)
    /\ ~series[s].destroyed
    /\ xAxis' = destroyedAxes(s, xAxis, chart)
    /\ yAxis' = destroyedAxes(s, yAxis, chart)
    /\ series' = [series EXCEPT ![s].destroyed = TRUE]
    /\ UNCHANGED <<pc, options, chart, event, config, threw>>

\* the host's redraw of the axes, after which none is dirty
Redraw ==
    /\ pc = "ready"
    /\ \E i \in 1..Len(yAxis) : yAxis[i].isDirty
    /\ xAxis' = [i \in 1..Len(xAxis) |->
                    [xAxis[i] EXCEPT !.isDirty = FALSE, !.forceRedraw = FALSE]]
    /\ yAxis' = [i \in 1..Len(yAxis) |->
                    [yAxis[i] EXCEPT !.isDirty = FALSE, !.forceRedraw = FALSE]]
    /\ UNCHANGED <<pc, options, chart, series, event, config, threw>>

-----------------------------------------------------------------------------
(* Axis 'getSeriesExtremes' handler                                        *)

\* arr[index], which is undefined past the end and for an undefined index
At(arr, index) ==
    IF IsNum(index) /\ index[2] + 1 \in 1..Len(arr)
    THEN arr[index[2] + 1] ELSE Undefined

\* H.arrayMin and H.arrayMax of an array of numbers: undefined when empty
arrayMin(nums) ==
    IF nums = <<>> THEN Undefined
    ELSE Num(CHOOSE m \in {nums[i][2] : i \in 1..Len(nums)} :
                \A i \in 1..Len(nums) : m <= nums[i][2])

arrayMax(nums) ==
    IF nums = <<>> THEN Undefined
    ELSE Num(CHOOSE m \in {nums[i][2] : i \in 1..Len(nums)} :
                \A i \in 1..Len(nums) : m >= nums[i][2])

\* the values of every index, which is what the default gathers
RECURSIVE allPoints(_, _)
allPoints(axisSeries, sers) ==
    IF axisSeries = <<>> THEN <<>>
    ELSE SelectSeq(sers[Head(axisSeries)].yData, defined)
            \o allPoints(Tail(axisSeries), sers)

RECURSIVE currentPoints(_, _, _)
currentPoints(axisSeries, sers, index) ==
    IF axisSeries = <<>> THEN <<>>
    ELSE LET v == At(sers[Head(axisSeries)].yData, index)
         IN  (IF defined(v) THEN <<v>> ELSE <<>>)
                \o currentPoints(Tail(axisSeries), sers, index)

getSeriesExtremesAllIndexes(axis, sers, ch) ==
    IF Truthy(ch.hasParallelCoordinates) /\ ~axis.isXAxis
    THEN [axis |-> [axis EXCEPT
                       !.dataMin = arrayMin(allPoints(axis.series, sers)),
                       !.dataMax = arrayMax(allPoints(axis.series, sers))],
          defaultPrevented |-> TRUE]
    ELSE [axis |-> axis, defaultPrevented |-> FALSE]

getSeriesExtremes(axis, sers, ch) ==
    IF Truthy(ch.hasParallelCoordinates) /\ ~axis.isXAxis
    THEN LET pts == currentPoints(axis.series, sers, axis.parallelPosition)
         IN  [axis |-> [axis EXCEPT !.dataMin = arrayMin(pts),
                                    !.dataMax = arrayMax(pts)],
              defaultPrevented |-> TRUE]
    ELSE [axis |-> axis, defaultPrevented |-> FALSE]

\* coll is "xAxis" or "yAxis", i the axis's index in it (from 1).  A
\* destroyed series has no yData left: reading it is a TypeError.
GetSeriesExtremes(coll, i) ==
    /\ pc = "ready"
    /\ i \in 1..Len(IF coll = "xAxis" THEN xAxis ELSE yAxis)
    /\ LET axis == IF coll = "xAxis" THEN xAxis[i] ELSE yAxis[i]
           stale == /\ Truthy(chart.hasParallelCoordinates)
                    /\ ~axis.isXAxis
                    /\ \E k \in 1..Len(axis.series) :
                            series[axis.series[k]].destroyed
           r == IF stale THEN [axis |-> axis, defaultPrevented |-> FALSE]
                ELSE getSeriesExtremes(axis, series, chart)
       IN  /\ xAxis' = IF coll = "xAxis"
                       THEN [xAxis EXCEPT ![i] = r.axis] ELSE xAxis
           /\ yAxis' = IF coll = "yAxis"
                       THEN [yAxis EXCEPT ![i] = r.axis] ELSE yAxis
           /\ event' = [type |-> "getSeriesExtremes", coll |-> coll,
                        axis |-> i, defaultPrevented |-> r.defaultPrevented]
           /\ threw' = (threw \/ stale)
    /\ UNCHANGED <<pc, options, chart, series, config>>

-----------------------------------------------------------------------------
(* Series 'afterTranslate' handler                                         *)

NaN == <<"NaN">>

\* ToNumber of the values an axis position can hold
ToNumber(v) ==
    CASE v = Null -> Num(0)
      [] IsNum(v) -> v
      [] OTHER -> NaN

\* a - b, Math.abs(a) and Math.min(a, b) on numbers, NaN included
Minus(a, b) ==
    IF IsNum(ToNumber(a)) /\ IsNum(ToNumber(b))
    THEN Num(ToNumber(a)[2] - ToNumber(b)[2]) ELSE NaN

MathAbs(a) == IF IsNum(a) THEN Num(Abs(a[2])) ELSE NaN

MathMin(a, b) == IF IsNum(a) /\ IsNum(b) THEN Num(Min(a[2], b[2])) ELSE NaN

\* plotX of a point on the given axis
plotXOn(axis, ch) ==
    IF ch.polar
    THEN (IF Truthy(axis.angleRad) THEN axis.angleRad ELSE Num(0))
    ELSE IF ch.inverted
    THEN Minus(Minus(Num(ch.plotHeight), axis.top), Num(-ch.plotTop))
    ELSE Minus(axis.left, Num(ch.plotLeft))

\* one defined point, translated on its axis
translated(point, i, axis, ch) ==
    LET plotX == plotXOn(axis, ch)
        plotY == <<"translate", i, point.y>>
    IN  [point EXCEPT
            !.plotX = plotX,
            !.clientX = plotX,
            !.plotY = plotY,
            !.isInside = <<"isInsidePlot", plotX, plotY, ch.inverted>>]

\* the loop with lastPlotX kept at the first defined point
RECURSIVE translateLoopFromFirst(_, _, _, _, _, _)
translateLoopFromFirst(points, i, axes, ch, closest, lastPlotX) ==
    IF i > Len(points)
    THEN [points |-> points, closest |-> closest, threw |-> FALSE]
    ELSE IF ~defined(points[i].y)
    THEN translateLoopFromFirst([points EXCEPT ![i].isNull = TRUE],
                                i + 1, axes, ch, closest, lastPlotX)
    ELSE IF i > Len(axes)
    THEN [points |-> points, closest |-> closest, threw |-> TRUE]
    ELSE LET pt == translated(points[i], i - 1, axes[i], ch)
         IN  translateLoopFromFirst(
                [points EXCEPT ![i] = pt], i + 1, axes, ch,
                IF lastPlotX # Undefined
                THEN MathMin(closest, MathAbs(Minus(pt.plotX, lastPlotX)))
                ELSE closest,
                IF lastPlotX # Undefined THEN lastPlotX ELSE pt.plotX)

\* the loop over the points from index i (from 1); chart.yAxis[i] of a
\* missing axis is undefined and reading its position a TypeError
RECURSIVE translateLoop(_, _, _, _, _, _)
translateLoop(points, i, axes, ch, closest, lastPlotX) ==
    IF i > Len(points)
    THEN [points |-> points, closest |-> closest, threw |-> FALSE]
    ELSE IF ~defined(points[i].y)
    THEN translateLoop([points EXCEPT ![i].isNull = TRUE],
                       i + 1, axes, ch, closest, lastPlotX)
    ELSE IF i > Len(axes)
    THEN [points |-> points, closest |-> closest, threw |-> TRUE]
    ELSE LET pt == translated(points[i], i - 1, axes[i], ch)
         IN  translateLoop(
                [points EXCEPT ![i] = pt], i + 1, axes, ch,
                IF lastPlotX # Undefined
                THEN MathMin(closest, MathAbs(Minus(pt.plotX, lastPlotX)))
                ELSE closest,
                pt.plotX)

afterTranslate(ser, axes, ch) ==
    IF Truthy(ch.hasParallelCoordinates)
    THEN LET r == translateLoop(ser.points, 1, axes, ch,
                                Num(MAX_VALUE), Undefined)
         IN  [series |-> [ser EXCEPT
                            !.points = r.points,
                            !.closestPointRangePx =
                                IF r.threw THEN @ ELSE r.closest],
              threw |-> r.threw]
    ELSE [series |-> ser, threw |-> FALSE]

AfterTranslate(s) ==
    /\ pc = "ready"
    /\ s \in 1..Len(series)
    /\ ~series[s].destroyed
    /\ LET r == afterTranslate(series[s], yAxis, chart)
       IN  /\ series' = [series EXCEPT ![s] = r.series]
           /\ threw' = (threw \/ r.threw)
    /\ UNCHANGED <<pc, options, chart, xAxis, yAxis, event, config>>

-----------------------------------------------------------------------------
(* Point getLabelConfig of line and spline series, wrapped                 *)

\* yAxisOptions.categories[y]
categoryAt(categories, y) ==
    IF IsNum(y) /\ y[2] + 1 \in 1..Len(categories[2])
    THEN categories[2][y[2] + 1] ELSE Undefined

\* the order the option's documentation gives: categories before datetime
formattedValueAsDocumented(point, axis) ==
    LET labelFormat == pick(axis.options.tooltipValueFormat,
                            axis.options.labelsFormat)
    IN  IF Truthy(labelFormat) THEN <<"format", labelFormat, point.y>>
        ELSE IF Truthy(axis.options.categories)
        THEN categoryAt(axis.options.categories, point.y)
        ELSE IF axis.isDatetimeAxis THEN <<"dateFormat", point.y>>
        ELSE point.y

\* the value addFormattedValue resolves for a point on its axis
formattedValueOf(point, axis) ==
    LET labelFormat == pick(axis.options.tooltipValueFormat,
                            axis.options.labelsFormat)
    IN  IF Truthy(labelFormat) THEN <<"format", labelFormat, point.y>>
        ELSE IF axis.isDatetimeAxis THEN <<"dateFormat", point.y>>
        ELSE IF Truthy(axis.options.categories)
        THEN categoryAt(axis.options.categories, point.y)
        ELSE point.y

\* hostConfig is what the wrapped getLabelConfig returned
addFormattedValue(point, hostConfig, axes, ch) ==
    IF Truthy(ch.hasParallelCoordinates) /\ ~defined(hostConfig.formattedValue)
    THEN IF point.x + 1 \in 1..Len(axes)
         THEN LET v == formattedValueOf(point, axes[point.x + 1])
              IN  [config |-> [hostConfig EXCEPT !.formattedValue = v],
                   point |-> [point EXCEPT !.formattedValue = v],
                   threw |-> FALSE]
         ELSE [config |-> hostConfig, point |-> point, threw |-> TRUE]
    ELSE [config |-> hostConfig, point |-> point, threw |-> FALSE]

HostConfig(s, k, pre) == [series |-> s, point |-> k, formattedValue |-> pre]

GetLabelConfig(s, k, pre) ==
    /\ pc = "ready"
    /\ s \in 1..Len(series)
    /\ ~series[s].destroyed
    /\ k \in 1..Len(series[s].points)
    /\ LET r == addFormattedValue(series[s].points[k], HostConfig(s, k, pre),
                                  yAxis, chart)
       IN  /\ config' = r.config
           /\ series' = [series EXCEPT ![s].points[k] = r.point]
           /\ threw' = (threw \/ r.threw)
    /\ UNCHANGED <<pc, options, chart, xAxis, yAxis, event>>

-----------------------------------------------------------------------------
(* Inputs: the user's options, and the options of the later updates.       *)

TopDef == [EmptyAxisOptions EXCEPT !.top = Num(7)]
LeftDef == [EmptyAxisOptions EXCEPT !.left = Num(7)]
UserAxisDefs == {EmptyAxisOptions, TopDef}

\* a data array of n points
DataOfLen(n) == JsArr([i \in 1..n |-> Num(i)])

SeriesOptionsSet ==
    {[data |-> JsUndef]} \cup {[data |-> DataOfLen(n)] : n \in 0..MaxLen}

SeqsUpTo(S, n) == UNION {[1..k -> S] : k \in 0..n}

YAxisOptionsSet ==
    {JsUndef, JsObj(EmptyAxisOptions)}
        \cup {JsArr([i \in 1..k |-> EmptyAxisOptions]) : k \in 0..MaxUserAxes}

FlagOptions(flags) ==
    {JsObj([parallelCoordinates |-> v, parallelAxes |-> JsUndef]) : v \in flags}

UpdateOptionsSet(flags) ==
    {JsUndef} \cup
    {JsObj([parallelCoordinates |-> v, parallelAxes |-> a]) :
        v \in flags, a \in {JsUndef, JsObj(LeftDef)}}

NoBoost == [seriesThreshold |-> Undefined, boostThreshold |-> Undefined]

NewChart(inv, pol) ==
    [hasParallelCoordinates |-> Undefined,
     parallelInfo |-> JsUndef,
     inverted |-> inv,
     polar |-> pol,
     plotLeft |-> 10, plotTop |-> 20, plotHeight |-> 100,
     parallelAxes |-> defaultParallelAxes]

NoEvent ==
    [type |-> "none", coll |-> "none", axis |-> 0, defaultPrevented |-> FALSE]
NoConfig == [series |-> 0, point |-> 0, formattedValue |-> Undefined]

\* the state before Chart init, with the user's options drawn from optSet
Start(optSet, charts) ==
    /\ pc = "start"
    /\ options \in optSet
    /\ chart \in charts
    /\ xAxis = <<>>
    /\ yAxis = <<>>
    /\ series = <<>>
    /\ event = NoEvent
    /\ config = NoConfig
    /\ threw = FALSE

-----------------------------------------------------------------------------
(* The chart's life: construction from the user's options, then updates,   *)
(* which may turn the parallel-coordinates flag on or off.                 *)

Init ==
    Start([chart : {JsUndef} \cup FlagOptions({Bool(TRUE), Bool(FALSE)}),
           yAxis : {JsUndef},
           xAxis : {JsUndef},
           series : SeqsUpTo({[data |-> DataOfLen(n)] : n \in 1..MaxLen}, 1),
           legend : {JsUndef},
           boost : {NoBoost}],
          {NewChart(FALSE, pol) : pol \in BOOLEAN})

Next ==
    \/ ChartInit
    \/ CreateXAxis
    \/ CreateYAxis
    \/ AddAxis(EmptyAxisOptions)
    \/ \E i \in 1..MaxAxes : AxisUpdate(i, EmptyAxisOptions)
    \/ \E oc \in UpdateOptionsSet({Undefined, Bool(TRUE), Bool(FALSE)}) :
            ChartUpdate([chart |-> oc])
    \/ UpdateInverted

Spec == Init /\ [][Next]_vars

-----------------------------------------------------------------------------
(* Construction alone, over every shape of the user's options.             *)

InitConstruct ==
    Start([chart : {JsUndef} \cup FlagOptions({Bool(TRUE), Bool(FALSE)}),
           yAxis : YAxisOptionsSet,
           xAxis : {JsUndef, JsObj([EmptyAxisOptions EXCEPT
                                       !.type = Str("datetime")])},
           series : SeqsUpTo(SeriesOptionsSet, MaxSeries),
           legend : {JsUndef, JsObj([enabled |-> Undefined]),
                     JsObj([enabled |-> Bool(TRUE)])},
           boost : {NoBoost}],
          {NewChart(inv, pol) : inv \in BOOLEAN, pol \in BOOLEAN})

NextConstruct ==
    \/ ChartInit
    \/ CreateXAxis
    \/ CreateYAxis

SpecConstruct == InitConstruct /\ [][NextConstruct]_vars

-----------------------------------------------------------------------------
(* A chart constructed in parallel mode and never taken out of it.         *)

InitParallel ==
    Start([chart : FlagOptions({Bool(TRUE)}),
           yAxis : YAxisOptionsSet,
           xAxis : {JsUndef},
           series : SeqsUpTo(SeriesOptionsSet, MaxSeries),
           legend : {JsUndef},
           boost : {NoBoost}],
          {NewChart(FALSE, FALSE)})

NextParallel ==
    \/ ChartInit
    \/ CreateXAxis
    \/ CreateYAxis
    \/ \E def \in UserAxisDefs : AddAxis(def)
    \/ \E i \in 1..MaxAxes, def \in UserAxisDefs : AxisUpdate(i, def)
    \/ \E oc \in UpdateOptionsSet({Undefined, Bool(TRUE)}) :
            ChartUpdate([chart |-> oc])
    \/ UpdateInverted

SpecParallel == InitParallel /\ [][NextParallel]_vars

-----------------------------------------------------------------------------
(* Constructed charts: the state once Chart init, the construction of the  *)
(* axes and the initialisation of the series are through.                  *)

RECURSIVE builtYAxes(_, _, _)
builtYAxes(defs, built, ch) ==
    IF Len(built) = Len(defs) THEN built
    ELSE LET def == defs[Len(built) + 1]
         IN  builtYAxes(defs,
                Append(built, afterSetOptions(NewAxis(FALSE, def), ch,
                                              Len(built), def).axis),
                ch)

RECURSIVE boundSeries(_, _, _)
boundSeries(seriesOptions, st, ch) ==
    IF Len(st.series) = Len(seriesOptions) THEN st
    ELSE LET s == Len(st.series) + 1
         IN  boundSeries(seriesOptions,
                bindAxes(s, [st EXCEPT
                                !.series = Append(@, NewSeries(seriesOptions[s]))],
                         ch),
                ch)

Constructed(opts, ch0) ==
    LET ch == initChart(opts, ch0)
        o == IF Truthy(initFlag(opts)) THEN initOptions(opts) ELSE opts
        xdef == splatOr(o.xAxis, EmptyAxisOptions)[1]
        st == boundSeries(o.series,
                [xAxis |-> <<afterSetOptions(NewAxis(TRUE, xdef), ch, 0, xdef).axis>>,
                 yAxis |-> builtYAxes(AxisDefs(o), <<>>, ch),
                 series |-> <<>>],
                ch)
    IN  [options |-> o, chart |-> ch,
         xAxis |-> st.xAxis, yAxis |-> st.yAxis, series |-> st.series]

\* the state is one of the constructed charts of the set cs
Ready(cs) ==
    /\ pc = "ready"
    /\ \E c \in cs :
        /\ options = c.options
        /\ chart = c.chart
        /\ xAxis = c.xAxis
        /\ yAxis = c.yAxis
        /\ series = c.series
    /\ event = NoEvent
    /\ config = NoConfig
    /\ threw = FALSE

UserOptions(flag, yAxisOptions, seriesOptions) ==
    [chart |-> JsObj([parallelCoordinates |-> flag, parallelAxes |-> JsUndef]),
     yAxis |-> yAxisOptions,
     xAxis |-> JsUndef,
     series |-> seriesOptions,
     legend |-> JsUndef,
     boost |-> NoBoost]

Flags == {Bool(TRUE), Bool(FALSE)}

-----------------------------------------------------------------------------
(* The extremes of the axes of constructed charts.                         *)

ExtremeValues == {Null, Num(1), Num(5), Num(7)}

InitExtremes ==
    Ready({Constructed(UserOptions(flag, JsUndef, so), NewChart(FALSE, FALSE)) :
            flag \in Flags,
            so \in SeqsUpTo({[data |-> JsArr(d)] :
                                d \in SeqsUpTo(ExtremeValues, 2)}, MaxSeries)})

NextExtremes ==
    \E coll \in {"xAxis", "yAxis"}, i \in 1..MaxAxes : GetSeriesExtremes(coll, i)

SpecExtremes == InitExtremes /\ [][NextExtremes]_vars

-----------------------------------------------------------------------------
(* The translation of the points of one series, on axes the host has laid  *)
(* out gap pixels (or radians) apart.                                      *)

MaxGap == 2

PointValues == {Undefined, Null, Num(3)}

RECURSIVE SumTo(_, _)
SumTo(gaps, i) == IF i = 0 THEN 0 ELSE gaps[i] + SumTo(gaps, i - 1)

\* the axes after the host's layout: the axis at index i lies SumTo(gaps, i)
\* from the first
laidOut(c, gaps) ==
    [c EXCEPT !.yAxis =
        [i \in 1..Len(c.yAxis) |->
            [c.yAxis[i] EXCEPT
                !.left = Num(c.chart.plotLeft + SumTo(gaps, i - 1)),
                !.top = Num(c.chart.plotTop + c.chart.plotHeight
                                - SumTo(gaps, i - 1)),
                !.angleRad = Num(SumTo(gaps, i - 1))]]]

InitTranslate ==
    Ready({laidOut(Constructed(UserOptions(flag, JsUndef, <<[data |-> JsArr(d)]>>),
                               ch), gaps) :
            flag \in Flags,
            d \in SeqsUpTo(PointValues, 3),
            ch \in {NewChart(FALSE, FALSE), NewChart(TRUE, FALSE),
                    NewChart(FALSE, TRUE)},
            gaps \in [1..2 -> 1..MaxGap]})

NextTranslate == \E s \in 1..MaxSeries : AfterTranslate(s)

SpecTranslate == InitTranslate /\ [][NextTranslate]_vars

-----------------------------------------------------------------------------
(* Bindings and destructions of the series of constructed charts.          *)

InitBind ==
    Ready({Constructed(UserOptions(flag, JsUndef,
                                   [k \in 1..n |-> [data |-> DataOfLen(2)]]),
                       NewChart(inv, FALSE)) :
            flag \in Flags, n \in 1..MaxSeries, inv \in BOOLEAN})

NextBind ==
    \/ \E s \in 1..MaxSeries : BindAxes(s)
    \/ \E s \in 1..MaxSeries : Destroy(s)
    \/ Redraw

SpecBind == InitBind /\ [][NextBind]_vars

-----------------------------------------------------------------------------
(* Label configs of the points of a series on axes of every kind.          *)

Categories == <<"array", <<Str("low"), Str("high")>>>>

LabelAxisDefs ==
    {[EmptyAxisOptions EXCEPT !.tooltipValueFormat = t, !.labelsFormat = l,
                              !.categories = c, !.type = ty] :
        t \in {Undefined, Str("{value} units")},
        l \in {Undefined, Str("{value}")},
        c \in {Undefined, Categories},
        ty \in {Undefined, Str("datetime")}}

InitLabel ==
    Ready({Constructed(UserOptions(flag, JsArr(<<d1, d2>>),
                                   <<[data |-> JsArr(<<Num(y), Num(1 - y)>>)]>>),
                       NewChart(FALSE, FALSE)) :
            flag \in Flags, d1 \in LabelAxisDefs, d2 \in LabelAxisDefs,
            y \in {0, 1}})

NextLabel ==
    \E s \in 1..MaxSeries, k \in 1..2, pre \in {Undefined, Str("preset")} :
        GetLabelConfig(s, k, pre)

SpecLabel == InitLabel /\ [][NextLabel]_vars

-----------------------------------------------------------------------------
(* A chart whose flag is never truthy, under every hook of the module.     *)

InitOff ==
    Start([chart : {JsUndef} \cup FlagOptions({Bool(FALSE)}),
           yAxis : {JsUndef, JsArr(<<TopDef, EmptyAxisOptions>>)},
           xAxis : {JsUndef, JsObj([EmptyAxisOptions EXCEPT
                                       !.type = Str("datetime")])},
           series : SeqsUpTo({[data |-> JsArr(<<Num(1), Null>>)]}, 1),
           legend : {JsUndef, JsObj([enabled |-> Undefined])},
           boost : {NoBoost}],
          {NewChart(FALSE, FALSE)})

NextOff ==
    \/ ChartInit
    \/ CreateXAxis
    \/ CreateYAxis
    \/ InitSeries
    \/ AddAxis(TopDef)
    \/ \E i \in 1..MaxAxes : AxisUpdate(i, EmptyAxisOptions)
    \/ \E oc \in {JsObj([parallelCoordinates |-> v,
                          parallelAxes |-> JsObj(LeftDef)]) :
                        v \in {Undefined, Bool(FALSE)}} :
            ChartUpdate([chart |-> oc])
    \/ UpdateInverted
    \/ \E s \in 1..MaxSeries : BindAxes(s)
    \/ \E s \in 1..MaxSeries : Destroy(s)
    \/ \E coll \in {"xAxis", "yAxis"}, i \in 1..MaxAxes :
            GetSeriesExtremes(coll, i)
    \/ \E s \in 1..MaxSeries : AfterTranslate(s)
    \/ \E s \in 1..MaxSeries, k \in 1..2, pre \in {Undefined, Str("preset")} :
            GetLabelConfig(s, k, pre)

SpecOff == InitOff /\ [][NextOff]_vars

-----------------------------------------------------------------------------
(* Properties of the construction and of the layout.                       *)

\* the longest data array among the configured series, 0 when there is none
LongestData(seriesOptions) ==
    LET lens == {Len(seriesOptions[k].data.items) : k \in 1..Len(seriesOptions)}
    IN  IF lens = {} THEN 0 ELSE CHOOSE m \in lens : \A l \in lens : l <= m

\* v is the number or percentage n/d
IsRatio(v, tag, n, d) ==
    /\ Len(v) = 3
    /\ v[1] = tag
    /\ v[2] * d = n * v[3]

\* the Y axis at index j (from 0) of N sits at fraction (j + 0.5) / N
PlacedAt(axis, j, N) ==
    IF chart.polar
    THEN IsRatio(axis.options.angle, "ratio", 360 * (2 * j + 1), 2 * N)
    ELSE IsRatio(axis.options[IF chart.inverted THEN "top" ELSE "left"],
                 "percent", 100 * (2 * j + 1), 2 * N)

\* C1: once a parallel-coordinates chart is constructed, each of its N Y
\* axes, at index i, sits at fraction (i + 0.5) / N of the plot box (offset
\* 100 * (i + 0.5) / N percent, or angle 360 * (i + 0.5) / N when polar).
C1_PlacedByAxisCount ==
    (pc = "ready" /\ Truthy(chart.hasParallelCoordinates)) =>
        \A i \in 1..Len(yAxis) : PlacedAt(yAxis[i], i - 1, Len(yAxis))

\* C5: Chart init in parallel mode without user Y-axis definitions leaves
\* max(Li) Y-axis definitions in options.yAxis, 0 when no series has data.
C5_CountIsLongestData ==
    [][(ChartInit /\ options.yAxis.kind = "undefined"
            /\ Truthy(chart'.hasParallelCoordinates)) =>
        (/\ options'.yAxis.kind = "array"
         /\ Len(options'.yAxis.items) = LongestData(options.series))]_vars

\* C5 as amended: the number of definitions is max(1, max(Li)): one axis is
\* provisioned also when no series has data.
C5_CountIsAtLeastOne ==
    [][(ChartInit /\ options.yAxis.kind = "undefined"
            /\ Truthy(chart'.hasParallelCoordinates)) =>
        (/\ options'.yAxis.kind = "array"
         /\ Len(options'.yAxis.items) = Max(1, LongestData(options.series)))]_vars

\* a chart initialised in parallel mode from series of lengths 1 and 2 has
\* two provisioned Y-axis definitions
C5_Witness ==
    /\ pc = "axes"
    /\ Truthy(chart.hasParallelCoordinates)
    /\ Len(options.series) = 2
    /\ LongestData(options.series) = 2
    /\ options.yAxis = JsArr(<<EmptyAxisOptions, EmptyAxisOptions>>)
    /\ options.legend = JsObj([enabled |-> Bool(FALSE)])

\* C9: whenever the flag is truthy, parallelInfo has been computed and the
\* chart has at least counter + 1 Y axes.
C9_InfoWheneverParallel ==
    (pc = "ready" /\ Truthy(chart.hasParallelCoordinates)) =>
        /\ chart.parallelInfo.kind # "undefined"
        /\ Len(yAxis) >= chart.parallelInfo.items[1].counter + 1

\* the geometry setParallelPosition gives a fresh Y axis at position p
FreshGeometry(axis, inverted, counter) ==
    LET pct == Percent(100 * (2 * axis.parallelPosition[2] + 1),
                       2 * (counter + 1))
    IN  IF inverted
        THEN /\ axis.options.top = pct
             /\ axis.options.height = Num(0) /\ axis.height = Num(0)
             /\ axis.options.width = Null /\ axis.width = Null
             /\ axis.options.left = Null /\ axis.left = Null
        ELSE /\ axis.options.left = pct
             /\ axis.options.width = Num(0) /\ axis.width = Num(0)
             /\ axis.options.height = Null /\ axis.height = Null
             /\ axis.options.top = Null /\ axis.top = Null

\* C7: whatever re-layouts and flips of chart.inverted came before, a
\* non-polar Y axis has the geometry of a fresh axis in the current
\* orientation: offset on left (top when inverted), size 0, the other two
\* roles null.
C7_GeometryFollowsOrientation ==
    (Truthy(chart.hasParallelCoordinates) /\ ~chart.polar) =>
        \A i \in 1..Len(yAxis) :
            FreshGeometry(yAxis[i], chart.inverted,
                          chart.parallelInfo.items[1].counter)

\* an inverted chart (it was constructed upright) whose axis had a top of its
\* own and a common left, both now replaced
C7_Witness ==
    /\ pc = "ready"
    /\ chart.inverted
    /\ chart.parallelAxes.left = Num(7)
    /\ \E i \in 1..Len(yAxis) :
        /\ yAxis[i].userOptions.top = Num(7)
        /\ yAxis[i].options.left = Null
        /\ yAxis[i].options.top[1] = "percent"

\* C10: in parallel mode the Y axis at index i of chart.yAxis has
\* parallelPosition i, and the constructed chart has an axis for every
\* point index of every configured series.
C10_PositionIsIndex ==
    Truthy(chart.hasParallelCoordinates) =>
        /\ \A i \in 1..Len(yAxis) : yAxis[i].parallelPosition = Num(i - 1)
        /\ pc = "ready" =>
            \A k \in 1..Len(options.series) :
                \A j \in 1..Len(options.series[k].data.items) :
                    j <= Len(yAxis)

\* an axis was added after construction, an axis was updated with options
\* of its own, and a series has two points
C10_Witness ==
    /\ pc = "ready"
    /\ Len(yAxis) > Len(options.yAxis.items)
    /\ \E i \in 1..Len(yAxis) : yAxis[i].userOptions.top = Num(7)
    /\ LongestData(options.series) = 2

-----------------------------------------------------------------------------
(* Properties of the hooks on axes, series and points.                     *)

\* the defined values at index j (from 0) of the series bound to an axis
ValuesAt(axis, j) ==
    {series[axis.series[k]].yData[j + 1][2] :
        k \in {k \in 1..Len(axis.series) :
                /\ j + 1 <= Len(series[axis.series[k]].yData)
                /\ defined(series[axis.series[k]].yData[j + 1])}}

Least(S) == IF S = {} THEN Undefined ELSE Num(CHOOSE m \in S : \A x \in S : m <= x)
Greatest(S) == IF S = {} THEN Undefined ELSE Num(CHOOSE m \in S : \A x \in S : m >= x)

\* C2: in parallel mode getSeriesExtremes on the Y axis with ordinal
\* position i sets dataMin and dataMax to the least and the greatest of the
\* defined values at data index i of the series bound to the axis, and
\* prevents the default.
C2_ExtremesOfIndex ==
    (/\ event.type = "getSeriesExtremes"
     /\ event.coll = "yAxis"
     /\ Truthy(chart.hasParallelCoordinates)) =>
        /\ event.defaultPrevented
        /\ yAxis[event.axis].dataMin = Least(ValuesAt(yAxis[event.axis], event.axis - 1))
        /\ yAxis[event.axis].dataMax = Greatest(ValuesAt(yAxis[event.axis], event.axis - 1))

\* data [[1, 7], [5, null]]: the axis of index 1 has extremes 7 and 7
C2_Witness ==
    /\ event.type = "getSeriesExtremes"
    /\ event.coll = "yAxis"
    /\ event.axis = 2
    /\ Len(series) = 2
    /\ series[1].yData = <<Num(1), Num(7)>>
    /\ series[2].yData = <<Num(5), Null>>
    /\ yAxis[2].series = <<1, 2>>
    /\ yAxis[2].dataMin = Num(7)
    /\ yAxis[2].dataMax = Num(7)

\* the indexes of the points with a defined value
DefinedAt(points) == {i \in 1..Len(points) : defined(points[i].y)}

\* the distances in plotX between successive defined points
Distances(points) ==
    {Abs(points[b].plotX[2] - points[a].plotX[2]) :
        <<a, b>> \in {p \in DefinedAt(points) \X DefinedAt(points) :
                        /\ p[1] < p[2]
                        /\ \A m \in DefinedAt(points) : ~(p[1] < m /\ m < p[2])}}

\* C3: afterTranslate in parallel mode marks every point without a value
\* isNull and leaves it untranslated, and sets closestPointRangePx to the
\* least distance in plotX between successive defined points, or to
\* Number.MAX_VALUE when fewer than two points are defined.
C3_NullsAndClosestRange ==
    [][\A s \in 1..Len(series) :
        (AfterTranslate(s) /\ Truthy(chart.hasParallelCoordinates)) =>
            LET pts == series'[s].points
            IN  /\ \A i \in 1..Len(pts) :
                    ~defined(pts[i].y) =>
                        /\ pts[i].isNull
                        /\ pts[i].plotX = series[s].points[i].plotX
                /\ series'[s].closestPointRangePx =
                        IF Cardinality(DefinedAt(pts)) < 2
                        THEN Num(MAX_VALUE)
                        ELSE Least(Distances(pts))]_vars

\* three points, the middle one null, on axes 1 and 2 apart: range 3
C3_Witness ==
    /\ Len(series) = 1
    /\ Len(series[1].points) = 3
    /\ series[1].points[2].y = Null
    /\ series[1].points[2].isNull
    /\ series[1].points[1].plotX = Num(0)
    /\ series[1].points[3].plotX = Num(3)
    /\ series[1].closestPointRangePx = Num(3)

\* every bound, undestroyed series is in every axis's collection, and no
\* destroyed series is in any
C4_Membership ==
    \A s \in 1..Len(series) :
        \A coll \in {xAxis, yAxis} : \A i \in 1..Len(coll) :
            /\ (~series[s].destroyed /\ series[s].xAxis # Undefined) =>
                    Occurrences(coll[i].series, s) >= 1
            /\ series[s].destroyed => Occurrences(coll[i].series, s) = 0

\* C4: in parallel mode, after any bindAxes (repeated ones too) and destroy
\* steps, a bound series is in the collection of every axis and a destroyed
\* one in none; a bind marks every axis isDirty, a destroy isDirty and
\* forceRedraw.
C4_BoundEverywhere ==
    [][Truthy(chart.hasParallelCoordinates) =>
        /\ (\E s \in 1..Len(series) : BindAxes(s)) =>
            /\ C4_Membership'
            /\ \A coll \in {xAxis', yAxis'} : \A i \in 1..Len(coll) :
                    coll[i].isDirty
        /\ (\E s \in 1..Len(series) : Destroy(s)) =>
            /\ C4_Membership'
            /\ \A coll \in {xAxis', yAxis'} : \A i \in 1..Len(coll) :
                    coll[i].isDirty /\ coll[i].forceRedraw]_vars

\* C6: a label config the wrapper completed holds the explicit format's
\* result if a format is set, else the category name if the axis has
\* categories, else the date if the axis is a datetime axis, else the raw y.
C6_CategoryBeforeDatetime ==
    (/\ config.series # 0
     /\ Truthy(chart.hasParallelCoordinates)
     /\ config.formattedValue # Str("preset")) =>
        LET point == series[config.series].points[config.point]
        IN  config.formattedValue =
                formattedValueAsDocumented(point, yAxis[point.x + 1])

\* an axis as the host alone leaves it
HostOnly(axis) ==
    /\ axis.options = merge(EmptyAxisOptions, axis.userOptions)
    /\ axis.parallelPosition = Undefined
    /\ \A k \in GeomKeys : axis[k] = Undefined

SeriesOf(axes) == [i \in 1..Len(axes) |-> axes[i].series]

\* C8: while the flag is falsy every hook passes through: Chart init leaves
\* the options alone, afterSetOptions the axes, getSeriesExtremes the
\* extremes and the default, bindAxes binds as the host does, afterTranslate
\* leaves the series alone, destroy the axes' collections, and
\* getLabelConfig returns the host's config.
C8_PassThrough ==
    [][(~Truthy(chart.hasParallelCoordinates)
            /\ ~Truthy(chart'.hasParallelCoordinates)) =>
        /\ ChartInit => options' = options
        /\ \A coll \in {xAxis', yAxis'} : \A i \in 1..Len(coll) :
                HostOnly(coll[i])
        /\ (\E c \in {"xAxis", "yAxis"}, i \in 1..MaxAxes :
                GetSeriesExtremes(c, i)) =>
            /\ ~event'.defaultPrevented
            /\ xAxis' = xAxis /\ yAxis' = yAxis
        /\ \A s \in 1..Len(series) :
            /\ BindAxes(s) =>
                LET r == proceedBindAxes(s,
                            [xAxis |-> xAxis, yAxis |-> yAxis,
                             series |-> [series EXCEPT ![s].destroyed = FALSE]])
                IN  xAxis' = r.xAxis /\ yAxis' = r.yAxis /\ series' = r.series
            /\ AfterTranslate(s) => series' = series
            /\ Destroy(s) =>
                /\ SeriesOf(xAxis') = SeriesOf(xAxis)
                /\ SeriesOf(yAxis') = SeriesOf(yAxis)
            /\ \A k \in 1..Len(series[s].points) :
                \A pre \in {Undefined, Str("preset")} :
                    GetLabelConfig(s, k, pre) =>
                        /\ config' = HostConfig(s, k, pre)
                        /\ series' = series]_vars

\* a chart out of parallel mode with a bound series that was destroyed and
\* a label config that the host alone made
C8_Witness ==
    /\ pc = "ready"
    /\ ~Truthy(chart.hasParallelCoordinates)
    /\ Len(yAxis) >= 2
    /\ Len(series) = 1
    /\ series[1].destroyed
    /\ yAxis[1].series = <<1>>
    /\ yAxis[2].series = <<>>
    /\ config.series = 1
    /\ config.formattedValue = Undefined

====
